---- MODULE Spec2Model ----
(***************************************************************************)
(* FlakyGuard engine (src/engine.py): the result store behind one sqlite   *)
(* handle, ingest of JUnit reports, flip-rate detection, root-cause        *)
(* classification, cost attribution and the quarantine artifact.           *)
(*                                                                         *)
(* Text is a tuple of one-character strings, so that substring search,     *)
(* lower-casing, number parsing, text ordering and the lexing of the       *)
(* generated Python are computed and not assumed.  An optional value       *)
(* (Python None or a value) is a tuple of length 0 or 1.  Durations are    *)
(* counted in milliseconds, flip rates are kept as exact fractions,        *)
(* rounded rates in thousandths, money in 1/10000 dollar and in cents.     *)
(***************************************************************************)
EXTENDS Integers, Sequences, FiniteSets, TLC

VARIABLES
    rows,       \* table runs as this handle sees it, in id order
    committed,  \* number of leading rows made durable by a commit
    results,    \* the result dicts the last call returned or was given (detect,
                \* add_costs, quarantine_code); empty after any other call
    code,       \* the text the last call returned (quarantine_code), as lines
    last        \* the last call: its name, its arguments, what ingest returned

vars == <<rows, committed, results, code, last>>

\* Largest number of rows the table holds in the model.
MaxRows == 4

-----------------------------------------------------------------------------
(* Text helpers *)

\* A sequence given as a function, with its elements computed once and kept.
Stored(f) == f \o <<>>

Min(S) == CHOOSE x \in S : \A y \in S : x <= y

Max(S) == CHOOSE x \in S : \A y \in S : x >= y

SeqMin(s) == Min({s[i] : i \in 1..Len(s)})

SeqMax(s) == Max({s[i] : i \in 1..Len(s)})

DQ == "\""

BS == "\\"

\* The characters of the model in ASCII order: a character's code is its
\* position, which is all that byte-wise text comparison needs.
Ascii == <<" ","\"","#","%",",","-",".","0","1","2","3","4","5","6","7","8","9","A","B","C","D","E","F","G","H","I","J","K","L","M","N","O","P","Q","R","S","T","U","V","W","X","Y","Z","[","\\","]","_","a","b","c","d","e","f","g","h","i","j","k","l","m","n","o","p","q","r","s","t","u","v","w","x","y","z","{","}">>

Code(c) == CHOOSE i \in 1..Len(Ascii) : Ascii[i] = c

DigitChars == <<"0","1","2","3","4","5","6","7","8","9">>

UpperChars == <<"A","B","C","D","E","F","G","H","I","J","K","L","M","N","O","P","Q","R","S","T","U","V","W","X","Y","Z">>

LowerChars == <<"a","b","c","d","e","f","g","h","i","j","k","l","m","n","o","p","q","r","s","t","u","v","w","x","y","z">>

\* str.lower() on the ASCII letters.
LowerChar(c) ==
    IF \E i \in 1..26 : UpperChars[i] = c
    THEN LowerChars[CHOOSE i \in 1..26 : UpperChars[i] = c]
    ELSE c

\* Mutant of Lower: the message is searched as it was stored.
LowerNone(s) == s

Lower(s) == Stored([i \in 1..Len(s) |-> LowerChar(s[i])])

\* Python's `kw in m` on strings.
Contains(kw, m) ==
    \E i \in 0..(Len(m) - Len(kw)) : \A j \in 1..Len(kw) : m[i + j] = kw[j]

\* Byte-wise text order, as sqlite's BINARY collation: a proper prefix sorts first.
TextLess(a, b) ==
    \E k \in 1..(Len(a) + 1) :
        /\ k <= Len(b)
        /\ \A j \in 1..(k - 1) : a[j] = b[j]
        /\ (k = Len(a) + 1 \/ Code(a[k]) < Code(b[k]))

\* The decimal digits of a natural number.
RECURSIVE Digits(_)
Digits(n) == IF n < 10 THEN <<DigitChars[n + 1]>> ELSE Digits(n \div 10) \o <<DigitChars[(n % 10) + 1]>>

DigitVal(c) == (CHOOSE i \in 1..10 : DigitChars[i] = c) - 1

IsDigit(c) == \E i \in 1..10 : DigitChars[i] = c

\* Round a non-negative fraction num/den to the nearest integer, ties to even.
RoundHalfEven(num, den) ==
    LET q == num \div den
        r == num % den
    IN  IF 2 * r < den THEN q
        ELSE IF 2 * r > den THEN q + 1
        ELSE IF q % 2 = 0 THEN q ELSE q + 1

\* dict.get / Element.get with a default.
Get(attrs, key, default) == IF key \in DOMAIN attrs THEN attrs[key] ELSE default

-----------------------------------------------------------------------------
(* Clock: datetime.now() *)

\* A reading of the wall clock: seconds and microseconds, one digit each.
Clock == {[s |-> 0, us |-> 0], [s |-> 0, us |-> 5], [s |-> 1, us |-> 0]}

\* now.strftime('%Y%m%d%H%M%S%f'): fixed width, microseconds always there.
strftime(t) == <<DigitChars[t.s + 1], DigitChars[t.us + 1]>>

\* now.isoformat(): the fraction is left out when the microseconds are 0.
isoformat(t) ==
    IF t.us = 0 THEN <<DigitChars[t.s + 1]>>
    ELSE <<DigitChars[t.s + 1], ".", DigitChars[t.us + 1]>>

-----------------------------------------------------------------------------
(* The root-cause taxonomy *)

CAUSES == <<
    [name |-> "timing", text |-> <<"t","i","m","i","n","g">>,
     kws |-> <<<<"t","i","m","e","o","u","t">>, <<"t","i","m","e","d"," ","o","u","t">>, <<"s","l","e","e","p">>, <<"d","e","a","d","l","i","n","e">>, <<"a","s","y","n","c">>, <<"w","a","i","t">>>>],
    [name |-> "resource_leak", text |-> <<"r","e","s","o","u","r","c","e","_","l","e","a","k">>,
     kws |-> <<<<"m","e","m","o","r","y">>, <<"o","o","m">>, <<"c","o","n","n","e","c","t","i","o","n">>, <<"f","i","l","e"," ","d","e","s","c","r","i","p","t","o","r">>, <<"t","o","o"," ","m","a","n","y">>>>],
    [name |-> "shared_state", text |-> <<"s","h","a","r","e","d","_","s","t","a","t","e">>,
     kws |-> <<<<"a","l","r","e","a","d","y"," ","e","x","i","s","t","s">>, <<"d","u","p","l","i","c","a","t","e">>, <<"c","o","n","f","l","i","c","t">>, <<"l","o","c","k","e","d">>, <<"d","i","r","t","y">>>>],
    [name |-> "ordering", text |-> <<"o","r","d","e","r","i","n","g">>,
     kws |-> <<<<"n","o","t"," ","f","o","u","n","d">>, <<"s","e","t","u","p">>, <<"f","i","x","t","u","r","e">>, <<"d","e","p","e","n","d","s">>, <<"m","i","s","s","i","n","g">>>>],
    [name |-> "race_condition", text |-> <<"r","a","c","e","_","c","o","n","d","i","t","i","o","n">>,
     kws |-> <<<<"r","a","c","e">>, <<"c","o","n","c","u","r","r","e","n","t">>, <<"t","h","r","e","a","d">>, <<"d","e","a","d","l","o","c","k">>>>],
    [name |-> "timezone", text |-> <<"t","i","m","e","z","o","n","e">>,
     kws |-> <<<<"t","i","m","e","z","o","n","e">>, <<"u","t","c">>, <<"t","z">>, <<"o","f","f","s","e","t">>, <<"d","s","t">>>>],
    [name |-> "float_precision", text |-> <<"f","l","o","a","t","_","p","r","e","c","i","s","i","o","n">>,
     kws |-> <<<<"p","r","e","c","i","s","i","o","n">>, <<"f","l","o","a","t">>, <<"d","e","c","i","m","a","l">>, <<"a","l","m","o","s","t"," ","e","q","u","a","l">>>>] >>

NonDeterministic == "non_deterministic"

CauseText(c) ==
    IF c = NonDeterministic THEN <<"n","o","n","_","d","e","t","e","r","m","i","n","i","s","t","i","c">>
    ELSE CAUSES[CHOOSE i \in 1..Len(CAUSES) : CAUSES[i].name = c].text

-----------------------------------------------------------------------------
(* init_db *)

init_db == <<>>

Init ==
    /\ rows = init_db
    /\ committed = 0
    /\ results = <<>>
    /\ code = <<>>
    /\ last = [op |-> "init_db", raised |-> FALSE, k |-> 0, before |-> 0,
               n |-> 0, run_id |-> <<>>, arg_run_id |-> <<>>,
               min_runs |-> 0, threshold |-> [num |-> 0, den |-> 1],
               ci_rate |-> 0, rerun_min |-> 0]

-----------------------------------------------------------------------------
(* ingest *)

\* float(text) for the texts of the model: digits with an optional fraction of
\* up to three digits, read in milliseconds; any other text raises ValueError.
IsFloat(s) ==
    /\ s # <<>>
    /\ \A i \in 1..Len(s) : IsDigit(s[i]) \/ s[i] = "."
    /\ Cardinality({i \in 1..Len(s) : s[i] = "."}) <= 1
    /\ \E i \in 1..Len(s) : IsDigit(s[i])
    /\ \A i \in 1..Len(s) : s[i] = "." => Len(s) - i <= 3

RECURSIVE DigitsVal(_)
DigitsVal(s) == IF s = <<>> THEN 0 ELSE 10 * DigitsVal(SubSeq(s, 1, Len(s) - 1)) + DigitVal(s[Len(s)])

float(s) ==
    LET dots == {i \in 1..Len(s) : s[i] = "."}
        dot  == IF dots = {} THEN Len(s) + 1 ELSE Min(dots)
        int  == SubSeq(s, 1, dot - 1)
        frac == SubSeq(s, dot + 1, Len(s))
        pad  == [i \in 1..3 |-> IF i <= Len(frac) THEN frac[i] ELSE "0"]
    IN  1000 * DigitsVal(int) + DigitsVal(pad)

\* tc.find(tag): the first child of that tag, or None.
find(tc, tag) == IF tag \in DOMAIN tc.children THEN <<tc.children[tag]>> ELSE <<>>

\* Python's `a or b` on strings and None: a when it is a non-empty string.
Truthy(o) == o # <<>> /\ o[1] # <<>>

\* status: "fail" if fail_el is not None else ("error" if err_el is not None else "pass")
StatusOf(tc) ==
    IF find(tc, "failure") # <<>> THEN "fail"
    ELSE IF find(tc, "error") # <<>> THEN "error" ELSE "pass"

\* msg = (el.get("message", "") or el.text or "") if el is not None else ""
MessageOf(tc) ==
    LET fail_el == find(tc, "failure")
        el      == IF fail_el # <<>> THEN fail_el ELSE find(tc, "error")
        attr    == IF el # <<>> /\ "message" \in DOMAIN el[1].attrs THEN <<el[1].attrs["message"]>> ELSE <<>>
    IN  IF el = <<>> THEN <<>>
        ELSE IF Truthy(attr) THEN attr[1]
        ELSE IF Truthy(el[1].text) THEN el[1].text[1]
        ELSE <<>>

\* Mutant of MakeRow: the run identifier and the timestamp in each other's column.
MakeRowSwapped(tc, run_id, ts) ==
    [name |-> Get(tc.attrs, "classname", <<>>) \o <<".">> \o Get(tc.attrs, "name", <<>>),
     status |-> StatusOf(tc),
     duration |-> IF "time" \in DOMAIN tc.attrs THEN float(tc.attrs["time"]) ELSE 0,
     error |-> MessageOf(tc),
     run_id |-> ts, ts |-> run_id]

\* The row ingest builds of one test-case element (engine.py lines 33-40).
MakeRow(tc, run_id, ts) ==
    [name |-> Get(tc.attrs, "classname", <<>>) \o <<".">> \o Get(tc.attrs, "name", <<>>),
     status |-> StatusOf(tc),
     duration |-> IF "time" \in DOMAIN tc.attrs THEN float(tc.attrs["time"]) ELSE 0,
     error |-> MessageOf(tc),
     run_id |-> run_id, ts |-> ts]

\* Whether float(tc.get("time", 0)) raises on this element.
TimeRaises(tc) == "time" \in DOMAIN tc.attrs /\ ~IsFloat(tc.attrs["time"])

\* ingest(db, xml_path, run_id): now1 and now2 are the two clock readings.  An
\* unparseable file raises before the loop; a bad time attribute raises inside
\* it, after the earlier elements were inserted and before the commit.
ingest(report, arg_run_id, now1, now2) ==
    LET run_id == IF Truthy(arg_run_id) THEN arg_run_id[1] ELSE <<"r","-">> \o strftime(now1)
        ts     == isoformat(now2)
        tcs    == report.testcases
        bad    == {i \in 1..Len(tcs) : TimeRaises(tcs[i])}
        ok     == report.parses /\ bad = {}
        done   == IF ~report.parses THEN 0 ELSE IF bad = {} THEN Len(tcs) ELSE Min(bad) - 1
    IN  /\ Len(rows) + Len(tcs) <= MaxRows
        /\ rows' = rows \o [i \in 1..done |-> MakeRow(tcs[i], run_id, ts)]
        /\ committed' = IF ok THEN Len(rows') ELSE committed
        /\ last' = [op |-> "ingest", raised |-> ~ok, k |-> Len(tcs), before |-> Len(rows),
                    n |-> IF ok THEN done ELSE 0,
                    run_id |-> IF ok THEN run_id ELSE <<>>, arg_run_id |-> arg_run_id,
                    min_runs |-> 0, threshold |-> [num |-> 0, den |-> 1],
                    ci_rate |-> 0, rerun_min |-> 0]
        /\ results' = <<>>
        /\ code' = <<>>

-----------------------------------------------------------------------------
(* Reports: the JUnit files the model ingests *)

NoChild == <<>>

Child(tag, attrs, text) == tag :> [attrs |-> attrs, text |-> text]

TestCase(classname, name, time, children) ==
    [attrs |-> ("classname" :> classname) @@ ("name" :> name) @@ ("time" :> time),
     children |-> children]

Report(tcs) == [parses |-> TRUE, testcases |-> tcs]

\* A file ElementTree cannot parse.
Unparseable == [parses |-> FALSE, testcases |-> <<>>]

TimeoutMsg == <<"t","i","m","e","o","u","t"," ","w","a","i","t","i","n","g"," ","f","o","r"," ","r","e","s","p","o","n","s","e">>

\* JUNIT_PASS and JUNIT_FAIL of test_flakyguard.py, with module m and tests a, b.
APass == TestCase(<<"m">>, <<"a">>, <<"0",".","0","1">>, NoChild)

BPass == TestCase(<<"m">>, <<"b">>, <<"0",".","0","2">>, NoChild)

AFail == TestCase(<<"m">>, <<"a">>, <<"0",".","5">>, Child("failure", "message" :> TimeoutMsg, <<<<"A","s","s","e","r","t","i","o","n","E","r","r","o","r">>>>))

AError == TestCase(<<"m">>, <<"a">>, <<"0",".","5">>, Child("error", <<>>, <<<<"b","o","o","m">>>>))

BFail == TestCase(<<"m">>, <<"b">>, <<"0",".","5">>, Child("failure", "message" :> TimeoutMsg, <<>>))

\* A test-case element whose time attribute is not a number.
BBadTime == TestCase(<<"m">>, <<"b">>, <<"a","b","c">>, NoChild)

JUNIT_PASS == Report(<<APass, BPass>>)

JUNIT_FAIL == Report(<<AFail, BPass>>)

\* Spec: one test at a time, every status, a second test beside the error.
DetectReports == {Report(<<APass>>), Report(<<AFail>>), Report(<<AError, BPass>>)}

\* SpecIngest: whole files, a file that fails half way, a file that does not parse.
IngestReports == {JUNIT_PASS, JUNIT_FAIL, Report(<<AFail, BBadTime>>), Unparseable}

\* SpecClassify: failures of test a with the messages and durations that set
\* the causes apart; the element without time has duration 0.
ClassifyReports == {
    Report(<<AFail>>),
    Report(<<TestCase(<<"m">>, <<"a">>, <<"0",".","0","0","2">>, Child("error", <<>>, <<<<"D","e","a","d","l","o","c","k"," ","i","n"," ","T","H","R","E","A","D">>>>))>>),
    Report(<<[attrs |-> ("classname" :> <<"m">>) @@ ("name" :> <<"a">>),
              children |-> Child("failure", "message" :> <<"A","s","s","e","r","t","i","o","n","E","r","r","o","r">>, <<>>)]>>),
    Report(<<TestCase(<<"m">>, <<"a">>, <<"2">>, Child("failure", "message" :> <<>>, <<>>))>>),
    Report(<<TestCase(<<"m">>, <<"a">>, <<"0",".","5">>, Child("failure", "message" :> <<"m","e","m","o","r","y"," ","n","o","t"," ","f","o","u","n","d">>, <<>>))>>),
    Report(<<TestCase(<<"m">>, <<"a">>, <<"9">>, NoChild)>>) }

\* SpecCost: failing and passing runs of two tests.
CostReports == {Report(<<AFail>>), Report(<<APass>>), Report(<<BFail>>)}

\* SpecQuarantine: a parametrized test whose id holds double quotes.
QFail == TestCase(<<"m">>, <<"t","[","\"","x","\"","]">>, <<"0",".","5">>, Child("failure", "message" :> TimeoutMsg, <<>>))

QPass == TestCase(<<"m">>, <<"t","[","\"","x","\"","]">>, <<"0",".","5">>, NoChild)

QuarantineReports == {Report(<<AFail>>), Report(<<APass>>), Report(<<QFail>>), Report(<<QPass>>)}

None == <<>>

Some(x) == <<x>>

Frac(num, den) == [num |-> num, den |-> den]

-----------------------------------------------------------------------------
(* detect *)

NamesOf(rs) == {rs[i].name : i \in 1..Len(rs)}

RowsOf(rs, name) == {i \in 1..Len(rs) : rs[i].name = name}

FailsOf(rs, name) == {i \in RowsOf(rs, name) : rs[i].status # "pass"}

\* A set of texts as a sequence in byte-wise order: the order in which sqlite
\* returns the groups of GROUP BY name.
RECURSIVE SortTexts(_)
SortTexts(S) ==
    IF S = {} THEN <<>>
    ELSE LET m == CHOOSE x \in S : \A y \in S : x = y \/ TextLess(x, y)
         IN  <<m>> \o SortTexts(S \ {m})

\* ORDER BY ts, id: row i comes before row j.
RowBefore(rs, i, j) == TextLess(rs[i].ts, rs[j].ts) \/ (rs[i].ts = rs[j].ts /\ i < j)

RECURSIVE OrderBy(_, _)
OrderBy(rs, I) ==
    IF I = {} THEN <<>>
    ELSE LET m == CHOOSE i \in I : \A j \in I : i = j \/ RowBefore(rs, i, j)
         IN  <<m>> \o OrderBy(rs, I \ {m})

\* SELECT status FROM runs WHERE name=? ORDER BY ts, id
StatusesOf(rs, name) ==
    LET o == OrderBy(rs, RowsOf(rs, name))
    IN  Stored([k \in 1..Len(o) |-> rs[o[k]].status])

\* Mutant of GroupHaving: the HAVING clause left out.
GroupAll(rs, min_runs) ==
    LET names == SortTexts(NamesOf(rs))
    IN  Stored([k \in 1..Len(names) |->
            [name |-> names[k], total |-> Cardinality(RowsOf(rs, names[k])),
             fails |-> Cardinality(FailsOf(rs, names[k]))]])

\* SELECT name, COUNT(*), SUM(status!='pass') ... GROUP BY name HAVING COUNT(*)>=?
GroupHaving(rs, min_runs) ==
    LET names == SortTexts({nm \in NamesOf(rs) : Cardinality(RowsOf(rs, nm)) >= min_runs})
    IN  Stored([k \in 1..Len(names) |->
            [name |-> names[k], total |-> Cardinality(RowsOf(rs, names[k])),
             fails |-> Cardinality(FailsOf(rs, names[k]))]])

\* Mutant of Flips: only a change between passing and not passing counts.
FlipsPassOnly(sts) ==
    Cardinality({i \in 2..Len(sts) : (sts[i] = "pass") # (sts[i - 1] = "pass")})

\* flips = sum(1 for i in range(1, len(sts)) if sts[i] != sts[i - 1])
Flips(sts) == Cardinality({i \in 2..Len(sts) : sts[i] # sts[i - 1]})

\* Mutant of FlipRate: the share of non-passing results.
FailureRate(sts) ==
    [num |-> Cardinality({i \in 1..Len(sts) : sts[i] # "pass"}), den |-> Max({Len(sts), 1})]

\* rate = flips / max(len(sts) - 1, 1), kept as a fraction.
FlipRate(sts) == [num |-> Flips(sts), den |-> Max({Len(sts) - 1, 1})]

\* rate >= threshold, both fractions with positive denominators.
RateAtLeast(rate, threshold) == rate.num * threshold.den >= threshold.num * rate.den

\* round(rate, 3), in thousandths.
Round3(rate) == RoundHalfEven(1000 * rate.num, rate.den)

-----------------------------------------------------------------------------
(* _classify *)

\* The floor of the smallest duration, 0.001 s, in milliseconds.
DurationFloor == 1

DurationRatio == 3

TimingBonus == 2

\* error of the rows WHERE name=? AND status!='pass' AND error!='', lower-cased.
MsgsOf(rs, name) ==
    LET o == SelectSeq(Stored([i \in 1..Len(rs) |-> i]),
                       LAMBDA i : rs[i].name = name /\ rs[i].status # "pass" /\ rs[i].error # <<>>)
    IN  Stored([k \in 1..Len(o) |-> Lower(rs[o[k]].error)])

\* duration of the rows WHERE name=? AND status!='pass'
DursOf(rs, name) ==
    LET o == SelectSeq(Stored([i \in 1..Len(rs) |-> i]),
                       LAMBDA i : rs[i].name = name /\ rs[i].status # "pass")
    IN  Stored([k \in 1..Len(o) |-> rs[o[k]].duration])

\* sum(kw in m for m in msgs for kw in vs)
KeywordScore(msgs, kws) ==
    Cardinality({p \in (1..Len(msgs)) \X (1..Len(kws)) : Contains(kws[p[2]], msgs[p[1]])})

\* len(durs) > 1 and max(durs) > 3 * max(min(durs), 0.001)
DurationBonus(durs) ==
    Len(durs) > 1 /\ SeqMax(durs) > DurationRatio * Max({SeqMin(durs), DurationFloor})

\* The scores of the causes, in the order of CAUSES.
Scores(rs, name) ==
    LET msgs  == MsgsOf(rs, name)
        bonus == DurationBonus(DursOf(rs, name))
    IN  Stored([c \in 1..Len(CAUSES) |->
            KeywordScore(msgs, CAUSES[c].kws)
            + IF CAUSES[c].name = "timing" /\ bonus THEN TimingBonus ELSE 0])

\* Mutant of Best: the last key of the largest score.
BestLast(scores) ==
    CHOOSE c \in 1..Len(scores) :
        /\ \A d \in 1..Len(scores) : scores[d] <= scores[c]
        /\ \A d \in (c + 1)..Len(scores) : scores[d] < scores[c]

\* max(scores, key=scores.get): the first key, in dict order, of the largest score.
Best(scores) ==
    CHOOSE c \in 1..Len(scores) :
        /\ \A d \in 1..Len(scores) : scores[d] <= scores[c]
        /\ \A d \in 1..(c - 1) : scores[d] < scores[c]

_classify(rs, name) ==
    LET scores == Scores(rs, name)
        best   == Best(scores)
    IN  IF scores[best] > 0 THEN CAUSES[best].name ELSE NonDeterministic

detect(rs, min_runs, threshold) ==
    LET groups == GroupHaving(rs, min_runs)
        kept   == SelectSeq(groups,
                      LAMBDA g : RateAtLeast(FlipRate(StatusesOf(rs, g.name)), threshold))
    IN  [k \in 1..Len(kept) |->
            [test |-> kept[k].name,
             flip_rate |-> Round3(FlipRate(StatusesOf(rs, kept[k].name))),
             runs |-> kept[k].total,
             failures |-> kept[k].fails,
             root_cause |-> _classify(rs, kept[k].name)]]

NoArgs ==
    [raised |-> FALSE, k |-> 0, before |-> 0, n |-> 0, run_id |-> <<>>, arg_run_id |-> <<>>,
     min_runs |-> 0, threshold |-> [num |-> 0, den |-> 1], ci_rate |-> 0, rerun_min |-> 0]

Call(op, args) == [f \in DOMAIN args \cup {"op"} |-> IF f = "op" THEN op ELSE args[f]]

\* Mutant of DetectCall: the results of the tests left out are deleted.
DetectCallPruning(min_runs, threshold) ==
    /\ results' = detect(rows, min_runs, threshold)
    /\ code' = <<>>
    /\ last' = Call("detect", [NoArgs EXCEPT !.min_runs = min_runs, !.threshold = threshold])
    /\ rows' = SelectSeq(rows, LAMBDA r : Cardinality(RowsOf(rows, r.name)) >= min_runs)
    /\ UNCHANGED committed

\* detect(db, min_runs, threshold) on the handle.
DetectCall(min_runs, threshold) ==
    /\ results' = detect(rows, min_runs, threshold)
    /\ code' = <<>>
    /\ last' = Call("detect", [NoArgs EXCEPT !.min_runs = min_runs, !.threshold = threshold])
    /\ UNCHANGED <<rows, committed>>

-----------------------------------------------------------------------------
(* add_costs *)

\* Mutant of Reruns: COUNT(run_id), every non-passing result counted.
RerunsEveryRow(rs, name) == Cardinality(FailsOf(rs, name))

\* SELECT COUNT(DISTINCT run_id) FROM runs WHERE name=? AND status!='pass'
Reruns(rs, name) == Cardinality({rs[i].run_id : i \in FailsOf(rs, name)})

\* round(reruns * rerun_min * ci_rate, 2) in cents, ci_rate in 1/10000 dollar a
\* minute.  The rates of the model make no product a tie that binary floating
\* point would break differently from the exact value.
CostUsd(reruns, rerun_min, ci_rate) == RoundHalfEven(reruns * rerun_min * ci_rate, 100)

add_costs(rs_results, rs, ci_rate, rerun_min) ==
    [k \in 1..Len(rs_results) |->
        LET r == rs_results[k]
            reruns == Reruns(rs, r.test)
        IN  [f \in DOMAIN r \cup {"cost_usd", "reruns"} |->
                IF f = "cost_usd" THEN CostUsd(reruns, rerun_min, ci_rate)
                ELSE IF f = "reruns" THEN reruns
                ELSE r[f]]]

AddCostsCall(ci_rate, rerun_min) ==
    /\ last.op \in {"detect", "add_costs", "quarantine_code"}
    /\ results' = add_costs(results, rows, ci_rate, rerun_min)
    /\ code' = <<>>
    /\ last' = Call("add_costs", [NoArgs EXCEPT !.ci_rate = ci_rate, !.rerun_min = rerun_min])
    /\ UNCHANGED <<rows, committed>>

-----------------------------------------------------------------------------
(* quarantine_code *)

\* f"{x:.0%}" of a rate given in thousandths.
Percent(thousandths) == Digits(RoundHalfEven(thousandths, 10)) \o <<"%">>

\* f'    "{r["test"]}",  # flip={r["flip_rate"]:.0%} {r["root_cause"]}\n'
EntryLine(r) ==
    <<" "," "," "," ","\"">> \o r.test \o <<"\"",","," "," ","#"," ","f","l","i","p","=">> \o Percent(r.flip_rate) \o <<" ">> \o CauseText(r.root_cause)

HeadLines == << <<"i","m","p","o","r","t"," ","p","y","t","e","s","t">>, <<>>, <<"Q","U","A","R","A","N","T","I","N","E","D"," ","="," ","{">> >>

TailLines == <<
    <<"}">>, <<>>, <<>>,
    <<"d","e","f"," ","p","y","t","e","s","t","_","c","o","l","l","e","c","t","i","o","n","_","m","o","d","i","f","y","i","t","e","m","s","(","i","t","e","m","s",")",":">>,
    <<" "," "," "," ","f","o","r"," ","i","t","e","m"," ","i","n"," ","i","t","e","m","s",":">>,
    <<" "," "," "," "," "," "," "," ","f","q","n"," ","="," ","f","\"","{","i","t","e","m",".","m","o","d","u","l","e",".","_","_","n","a","m","e","_","_","}",".","{","i","t","e","m",".","n","a","m","e","}","\"">>,
    <<" "," "," "," "," "," "," "," ","i","f"," ","f","q","n"," ","i","n"," ","Q","U","A","R","A","N","T","I","N","E","D",":">>,
    <<" "," "," "," "," "," "," "," "," "," "," "," ","i","t","e","m",".","a","d","d","_","m","a","r","k","e","r","(","p","y","t","e","s","t",".","m","a","r","k",".","s","k","i","p","(","r","e","a","s","o","n","=","\"","F","l","a","k","y","G","u","a","r","d"," ","q","u","a","r","a","n","t","i","n","e","\"",")",")">> >>

\* The text as its lines; no text of the model holds a line break.
quarantine_code(rs_results) ==
    HeadLines \o [k \in 1..Len(rs_results) |-> EntryLine(rs_results[k])] \o TailLines

QuarantineCall ==
    /\ last.op \in {"detect", "add_costs"}
    /\ code' = quarantine_code(results)
    /\ last' = Call("quarantine_code", NoArgs)
    /\ UNCHANGED <<rows, committed, results>>

-----------------------------------------------------------------------------
(* Specifications: the same calls, each with the inputs its claims need *)

Next ==
    \/ \E r \in DetectReports, t \in {c \in Clock : c.s = 0} :
          ingest(r, Some(<<"r","u","n","-","0">>), t, t)
    \/ \E m \in {1, 3}, th \in {Frac(0, 1), Frac(1, 10), Frac(1, 2), Frac(1, 1)} :
          DetectCall(m, th)
    \/ (last.op = "detect" /\ AddCostsCall(80, 10))
    \/ (last.op = "detect" /\ QuarantineCall)

Spec == Init /\ [][Next]_vars

NextIngest ==
    \/ \E r \in IngestReports, a \in {None, Some(<<>>), Some(<<"c","i">>)},
          t1, t2 \in {c \in Clock : c.s + c.us > 0} :
          ingest(r, a, t1, t2)
    \/ DetectCall(1, Frac(0, 1))
    \/ AddCostsCall(80, 10)
    \/ QuarantineCall

SpecIngest == Init /\ [][NextIngest]_vars

NextClassify ==
    \/ \E r \in ClassifyReports : ingest(r, Some(<<"c","i">>), [s |-> 0, us |-> 0], [s |-> 0, us |-> 0])
    \/ \E p \in {<<1, Frac(0, 1)>>, <<2, Frac(1, 2)>>} : DetectCall(p[1], p[2])
    \/ (last.op = "detect" /\ AddCostsCall(80, 10))
    \/ (last.op = "detect" /\ QuarantineCall)

SpecClassify == Init /\ [][NextClassify]_vars

NextCost ==
    \/ \E r \in CostReports, a \in {Some(<<"r","1">>), Some(<<"r","2">>)} :
          ingest(r, a, [s |-> 0, us |-> 0], [s |-> 0, us |-> 0])
    \/ DetectCall(1, Frac(0, 1))
    \/ \E c \in {80, 100, 125}, m \in {10, 5} : AddCostsCall(c, m)
    \/ (last.op = "detect" /\ QuarantineCall)

SpecCost == Init /\ [][NextCost]_vars

NextQuarantine ==
    \/ \E r \in QuarantineReports : ingest(r, None, [s |-> 1, us |-> 0], [s |-> 1, us |-> 0])
    \/ \E p \in {<<1, Frac(0, 1)>>, <<3, Frac(1, 10)>>} : DetectCall(p[1], p[2])
    \/ (last.op = "detect" /\ AddCostsCall(80, 10))
    \/ QuarantineCall

SpecQuarantine == Init /\ [][NextQuarantine]_vars

-----------------------------------------------------------------------------
(* Claims.  A claim about a call is stated of the state right after that    *)
(* call: last names the call and its arguments, rows is the store it read   *)
(* or wrote, results and code are what it returned.                         *)

Reported == {results[k].test : k \in 1..Len(results)}

RunCount(nm) == Cardinality({i \in 1..Len(rows) : rows[i].name = nm})

NonPassing(nm) == {i \in 1..Len(rows) : rows[i].name = nm /\ rows[i].status \in {"fail", "error"}}

\* The instant a stored timestamp denotes, in the unit of the clock's last digit.
Instant(ts) == 10 * DigitVal(ts[1]) + (IF Len(ts) = 3 THEN DigitVal(ts[3]) ELSE 0)

\* Row i is earlier than row j: by timestamp, then by insertion.
Earlier(i, j) ==
    \/ Instant(rows[i].ts) < Instant(rows[j].ts)
    \/ (Instant(rows[i].ts) = Instant(rows[j].ts) /\ i < j)

\* Row j is the result of the same test right before row i.
Precedes(j, i) ==
    /\ rows[j].name = rows[i].name
    /\ Earlier(j, i)
    /\ ~\E x \in 1..Len(rows) : rows[x].name = rows[i].name /\ Earlier(j, x) /\ Earlier(x, i)

FlipCount(nm) ==
    Cardinality({i \in 1..Len(rows) :
        /\ rows[i].name = nm
        /\ \E j \in 1..Len(rows) : Precedes(j, i) /\ rows[j].status # rows[i].status})

\* max(n-1, 1) for the n results of a test.
Transitions(nm) == IF RunCount(nm) > 1 THEN RunCount(nm) - 1 ELSE 1

Flaky(nm, min_runs, threshold) ==
    /\ RunCount(nm) >= min_runs
    /\ FlipCount(nm) * threshold.den >= threshold.num * Transitions(nm)

\* C1: after any ingests, detect(min_runs, threshold) reports a test iff it has
\* at least min_runs stored results and flips / max(n-1, 1) >= threshold, the
\* flips counted over its results in timestamp order, ties by insertion order,
\* any change of status being a flip; the rate lies in [0,1], also for n = 1.
C1_DetectReportsByFlipRate ==
    last.op = "detect" =>
        /\ Reported = {nm \in NamesOf(rows) : Flaky(nm, last.min_runs, last.threshold)}
        /\ \A nm \in NamesOf(rows) : FlipCount(nm) >= 0 /\ FlipCount(nm) <= Transitions(nm)
        /\ \A k \in 1..Len(results) :
              /\ results[k].flip_rate \in 0..1000
              /\ 2 * Transitions(results[k].test) * results[k].flip_rate
                    >= 2000 * FlipCount(results[k].test) - Transitions(results[k].test)
              /\ 2 * Transitions(results[k].test) * results[k].flip_rate
                    <= 2000 * FlipCount(results[k].test) + Transitions(results[k].test)

\* A detect with min_runs 1 and a positive threshold that reports a test with a
\* fail-to-error flip whose results were not stored in timestamp order, beside
\* a test with a single result.
C1_Witness ==
    /\ last.op = "detect"
    /\ last.min_runs = 1
    /\ last.threshold.num > 0
    /\ \E nm \in NamesOf(rows) : RunCount(nm) = 1 /\ nm \notin Reported
    /\ \E i, j \in 1..Len(rows) :
          /\ rows[i].name \in Reported
          /\ Precedes(j, i)
          /\ i < j
          /\ rows[j].status = "fail"
          /\ rows[i].status = "error"
          /\ RunCount(rows[i].name) >= 3

\* C2: a test with fewer than min_runs stored results is never in the output
\* of detect, whatever the threshold.
C2_FewRunsNeverReported ==
    last.op = "detect" => \A k \in 1..Len(results) : RunCount(results[k].test) >= last.min_runs

\* A detect with threshold 0 that leaves out a test for its two results only.
C2_Witness ==
    /\ last.op = "detect"
    /\ last.threshold.num = 0
    /\ \E nm \in NamesOf(rows) :
          RunCount(nm) = 2 /\ FlipCount(nm) = 1 /\ last.min_runs = 3 /\ nm \notin Reported

AllSameStatus(nm) ==
    \A i, j \in 1..Len(rows) :
        rows[i].name = nm /\ rows[j].name = nm => rows[i].status = rows[j].status

\* C3 as claimed: a test whose results all have the same status is never in
\* the output of detect, for every min_runs and every threshold in [0,1].
C3_SameStatusNeverReported ==
    last.op = "detect" => \A nm \in NamesOf(rows) : AllSameStatus(nm) => nm \notin Reported

\* C3 as amended: a test whose results all have the same status has flip rate 0
\* and is never in the output of detect for a threshold in (0,1]; with
\* threshold 0 it is reported, with flip rate 0, once it has min_runs results.
C3_SameStatusReportedOnlyAtZero ==
    last.op = "detect" =>
        \A nm \in NamesOf(rows) :
            AllSameStatus(nm) =>
                /\ FlipCount(nm) = 0
                /\ last.threshold.num > 0 => nm \notin Reported
                /\ \A k \in 1..Len(results) : results[k].test = nm => results[k].flip_rate = 0
                /\ (last.threshold.num = 0 /\ RunCount(nm) >= last.min_runs) => nm \in Reported

\* A detect with a positive threshold over a test that failed in each of its
\* three or more runs, and is not reported.
C3_Witness ==
    /\ last.op = "detect"
    /\ last.threshold.num > 0
    /\ \E nm \in NamesOf(rows) :
          /\ AllSameStatus(nm)
          /\ RunCount(nm) >= 3
          /\ RunCount(nm) >= last.min_runs
          /\ NonPassing(nm) # {}
          /\ nm \notin Reported

\* The rows that carry a run identifier.
Tagged(run_id) == {i \in 1..Len(rows) : rows[i].run_id = run_id}

\* C4 as claimed: a successful ingest of a report with k test-case elements
\* returns n = k, adds exactly k results, and returns a run identifier that
\* exactly those k results carry.
C4_IngestRunIdExact ==
    (last.op = "ingest" /\ ~last.raised) =>
        /\ last.n = last.k
        /\ Len(rows) = last.before + last.k
        /\ Tagged(last.run_id) = (last.before + 1)..Len(rows)

\* C4 as amended: n = k, exactly k results are added, each of them carries the
\* returned run identifier, and they are the only results that carry it when
\* no result stored before the ingest carried it.
C4_IngestRunIdExactWhenFresh ==
    (last.op = "ingest" /\ ~last.raised) =>
        /\ last.n = last.k
        /\ Len(rows) = last.before + last.k
        /\ (last.before + 1)..Len(rows) \subseteq Tagged(last.run_id)
        /\ (\A i \in 1..last.before : rows[i].run_id # last.run_id)
              => Tagged(last.run_id) = (last.before + 1)..Len(rows)

\* A successful ingest of two test cases under an auto-generated identifier
\* into a store that holds results of other runs.
C4_Witness ==
    /\ last.op = "ingest"
    /\ ~last.raised
    /\ last.arg_run_id = <<>>
    /\ last.k = 2
    /\ last.before >= 2
    /\ Cardinality(Tagged(last.run_id)) = 2

\* C5: an ingest that fails leaves none of its report's test cases in the
\* store: what the handle sees is what it saw before the call.
C5_FailedIngestRecordsNothing ==
    (last.op = "ingest" /\ last.raised) => Len(rows) = last.before

\* The keyword occurs in the message at offset p, letter case ignored.
MatchesAt(msg, kw, p) == \A j \in 1..Len(kw) : LowerChar(msg[p + j]) = kw[j]

HasKeyword(msg, kw) == \E p \in 0..(Len(msg) - Len(kw)) : MatchesAt(msg, kw, p)

KeywordsOf(cause) == CAUSES[CHOOSE c \in 1..Len(CAUSES) : CAUSES[c].name = cause].kws

\* At least 2 non-passing results, the largest duration above 3 times
\* max(smallest duration, 0.001), in milliseconds.
BonusTriggers(nm) ==
    /\ Cardinality(NonPassing(nm)) >= 2
    /\ \E i, j \in NonPassing(nm) :
          /\ \A x \in NonPassing(nm) :
                rows[x].duration <= rows[i].duration /\ rows[x].duration >= rows[j].duration
          /\ rows[i].duration > 3 * (IF rows[j].duration > 1 THEN rows[j].duration ELSE 1)

TaxonomyOrder ==
    <<"timing", "resource_leak", "shared_state", "ordering", "race_condition",
      "timezone", "float_precision">>

\* C6: the root cause is non_deterministic iff no message of a non-passing
\* result of the test holds a keyword of any cause, letter case ignored, and
\* the duration bonus does not trigger.
C6_NonDeterministicIffNoEvidence ==
    last.op = "detect" =>
        \A k \in 1..Len(results) :
            (results[k].root_cause = "non_deterministic") <=>
                /\ ~\E i \in NonPassing(results[k].test), c \in 1..Len(TaxonomyOrder) :
                      \E w \in 1..Len(KeywordsOf(TaxonomyOrder[c])) :
                          HasKeyword(rows[i].error, KeywordsOf(TaxonomyOrder[c])[w])
                /\ ~BonusTriggers(results[k].test)

\* A detect that reports non_deterministic for a test with two or more failures
\* that carry a message.
C6_Witness ==
    /\ last.op = "detect"
    /\ \E k \in 1..Len(results) :
          /\ results[k].root_cause = "non_deterministic"
          /\ Cardinality(NonPassing(results[k].test)) >= 2
          /\ \E i \in NonPassing(results[k].test) : rows[i].error # <<>>

\* The score of a cause: the (non-passing result, keyword) pairs with the
\* keyword in the result's message, plus 2 for timing when the bonus triggers.
CauseScore(nm, cause) ==
    Cardinality({p \in NonPassing(nm) \X (1..Len(KeywordsOf(cause))) :
                    HasKeyword(rows[p[1]].error, KeywordsOf(cause)[p[2]])})
    + (IF cause = "timing" /\ BonusTriggers(nm) THEN 2 ELSE 0)

\* C7: when some cause has a positive score the root cause is the cause of the
\* highest score, the first in the order timing, resource_leak, shared_state,
\* ordering, race_condition, timezone, float_precision among equal scores.
C7_HighestScoreFirstDeclaredWins ==
    last.op = "detect" =>
        \A k \in 1..Len(results) :
            LET score == Stored([c \in 1..Len(TaxonomyOrder) |->
                                    CauseScore(results[k].test, TaxonomyOrder[c])])
            IN  (\E c \in 1..Len(TaxonomyOrder) : score[c] > 0) =>
                    \E c \in 1..Len(TaxonomyOrder) :
                        /\ results[k].root_cause = TaxonomyOrder[c]
                        /\ \A d \in 1..Len(TaxonomyOrder) :
                              /\ score[d] <= score[c]
                              /\ d < c => score[d] < score[c]

\* A detect that reports a cause other than timing which a later cause ties
\* with, both of positive score.
C7_Witness ==
    /\ last.op = "detect"
    /\ \E k \in 1..Len(results) :
          LET score == Stored([c \in 1..Len(TaxonomyOrder) |->
                                  CauseScore(results[k].test, TaxonomyOrder[c])])
          IN  \E c, d \in 1..Len(TaxonomyOrder) :
                  /\ 1 < c
                  /\ c < d
                  /\ results[k].root_cause = TaxonomyOrder[c]
                  /\ score[c] > 0
                  /\ score[c] = score[d]

\* cents is exact (in 1/10000 dollar) rounded to the cent, a tie to the even cent.
RoundedToCent(cents, exact) ==
    /\ 2 * (100 * cents - exact) <= 100
    /\ 2 * (exact - 100 * cents) <= 100
    /\ (2 * (100 * cents - exact) = 100 \/ 2 * (exact - 100 * cents) = 100) => cents % 2 = 0

\* C8: add_costs sets reruns to the number of distinct run identifiers in which
\* the test has a non-passing result and cost_usd to
\* round(reruns * rerun_min * ci_rate, 2), with the caller's ci_rate and rerun_min.
C8_CostFromDistinctFailingRuns ==
    last.op = "add_costs" =>
        \A k \in 1..Len(results) :
            LET runs == {rows[i].run_id : i \in NonPassing(results[k].test)}
            IN  /\ results[k].reruns = Cardinality(runs)
                /\ RoundedToCent(results[k].cost_usd,
                                 Cardinality(runs) * last.rerun_min * last.ci_rate)

\* An add_costs over a test with more non-passing results than failing runs,
\* at a rate that puts the cost half way between two cents.
C8_Witness ==
    /\ last.op = "add_costs"
    /\ \E k \in 1..Len(results) :
          /\ results[k].reruns = 1
          /\ Cardinality(NonPassing(results[k].test)) >= 2
          /\ results[k].cost_usd = 12
          /\ last.ci_rate * last.rerun_min = 1250
    /\ \E k \in 1..Len(results) : results[k].reruns = 2

\* C9: the store is append-only: no call changes or removes a stored result,
\* and detect, add_costs and quarantine_code leave the store as it is.
C9_StoreAppendOnly ==
    [][ /\ Len(rows') >= Len(rows)
        /\ SubSeq(rows', 1, Len(rows)) = rows
        /\ committed' >= committed
        /\ last'.op \in {"detect", "add_costs", "quarantine_code"}
              => (rows' = rows /\ committed' = committed) ]_vars

\* A detect that reports one test and leaves out another for its too few
\* runs, whose result is still in the store.
C9_Witness ==
    /\ last.op = "detect"
    /\ last.min_runs = 3
    /\ Reported # {}
    /\ \E nm \in NamesOf(rows) : RunCount(nm) \in 1..2 /\ nm \notin Reported
    /\ committed = Len(rows)

\* The end of the Python string literal that opens before position p: the
\* first double quote that no backslash escapes, 0 when there is none.
RECURSIVE ClosingQuote(_, _)
ClosingQuote(line, p) ==
    IF p > Len(line) THEN 0
    ELSE IF line[p] = BS THEN ClosingQuote(line, p + 2)
    ELSE IF line[p] = DQ THEN p
    ELSE ClosingQuote(line, p + 1)

\* What follows a set element on its line: a comma, blanks, a comment.
RestOfEntry(rest) ==
    /\ rest # <<>>
    /\ rest[1] = ","
    /\ \E h \in 2..(Len(rest) + 1) :
          /\ \A j \in 2..(h - 1) : rest[j] = " "
          /\ h <= Len(rest) => rest[h] = "#"

\* The line is one element of a set display: an indented string literal.
WellFormedEntry(line) ==
    /\ Len(line) >= 6
    /\ SubSeq(line, 1, 5) = <<" ", " ", " ", " ", DQ>>
    /\ ClosingQuote(line, 6) > 0
    /\ RestOfEntry(SubSeq(line, ClosingQuote(line, 6) + 1, Len(line)))

\* The text the string literal of a well-formed entry denotes.
RECURSIVE Unescape(_)
Unescape(body) ==
    IF body = <<>> THEN <<>>
    ELSE IF body[1] = BS /\ Len(body) >= 2 /\ body[2] \in {BS, DQ}
         THEN <<body[2]>> \o Unescape(SubSeq(body, 3, Len(body)))
    ELSE <<body[1]>> \o Unescape(Tail(body))

EntryName(line) == Unescape(SubSeq(line, 6, ClosingQuote(line, 6) - 1))

LineIndex(text, line) == {i \in 1..Len(text) : text[i] = line}

\* C10: for a non-empty list of records of detect the text of quarantine_code
\* is well-formed Python, holds the QUARANTINED declaration and the
\* pytest_collection_modifyitems hook, and the declared set holds exactly the
\* test names of the records, one entry a record.
C10_QuarantineWellFormed ==
    (last.op = "quarantine_code" /\ results # <<>>) =>
        /\ LineIndex(code, <<"Q","U","A","R","A","N","T","I","N","E","D"," ","="," ","{">>) = {3}
        /\ LineIndex(code, <<"}">>) = {4 + Len(results)}
        /\ LineIndex(code, <<"d","e","f"," ","p","y","t","e","s","t","_","c","o","l","l","e","c","t","i","o","n","_","m","o","d","i","f","y","i","t","e","m","s","(","i","t","e","m","s",")",":">>) = {7 + Len(results)}
        /\ \A k \in 1..Len(results) :
              /\ WellFormedEntry(code[3 + k])
              /\ EntryName(code[3 + k]) = results[k].test

====
